---- MODULE Spec2Model ----
(***************************************************************************)
(* bloblo: a reverse proxy that offloads blob downloads to S3.             *)
(*                                                                         *)
(* The model follows BlobloProxy.ServeHTTP (bloblo_proxy.go) and           *)
(* S3ObjectStorageCache (object_storage_cache.go).  Every inbound request  *)
(* is one handler goroutine; a handler is cut into steps at its blocking   *)
(* calls (the HEAD probe, HeadObject, presign, the upstream GET, the reads *)
(* the S3 uploader makes through the TeeReader, the final put), so that    *)
(* handlers of different clients interleave the way goroutines do.         *)
(*                                                                         *)
(* Strings that the code takes apart (request URIs, URLs) are sequences of *)
(* tokens; "/" and "?" are tokens of their own.                            *)
(***************************************************************************)
EXTENDS Integers, Sequences, FiniteSets, TLC

\* ----------------------------------------------------------------- bounds
\* Number of chunks of a blob served by the upstream.
MaxBodyLen == 2

\* ------------------------------------------------------ program constants
StatusOK == 200
StatusFound == 302
StatusInternalServerError == 500

MethodGet == "GET"
MethodHead == "HEAD"

\* The clients whose requests are served, each by its own handler goroutine.
Clients == {"c1", "c2", "c3"}

Methods == {MethodGet, MethodHead, "PUT"}

\* Request URIs the clients send.
UriBlob == <<"/", "v2", "/", "repo", "/", "blobs", "/", "sha256:d1">>
UriBlobQuery == <<"/", "v2", "/", "repo", "/", "blobs", "/", "sha256:d1", "?", "q">>
UriShort == <<"/", "blobs", "/", "sha256:d1">>
UriNotBlob == <<"/", "some", "/", "blob", "/", "lo">>
UriTooShort == <<"/", "blobs">>
RequestURIs == {UriBlob, UriBlobQuery, UriShort, UriNotBlob, UriTooShort}

\* Request URIs whose query string holds a "/".
UriSlashInQuery ==
    <<"/", "v2", "/", "repo", "/", "manifests", "/", "latest",
      "?", "from=", "/", "blobs", "/", "sha256:d2">>
UriBlobSlashInQuery ==
    <<"/", "v2", "/", "repo", "/", "blobs", "/", "sha256:d1", "?", "next=", "/", "tags">>
AllRequestURIs == RequestURIs \cup {UriSlashInQuery, UriBlobSlashInQuery}

\* Header sets of the requests: credentials, with or without a User-Agent.
HeaderAuth == "Authorization" :> "Basic creds"
HeaderAuthAgent == ("Authorization" :> "Basic creds") @@ ("User-Agent" :> "docker/20.10")
Headers == {HeaderAuth, HeaderAuthAgent}

\* The upstream the proxy fronts, and the address the clients reach the proxy at.
upstreamUrl == [Scheme |-> "http", Host |-> "localhost:7000"]
listenHost == "localhost:7777"
s3BucketName == "sample-bucket"

nil == "nil"
NoUri == <<>>

\* ------------------------------------------------------------ strings
\* strings.Split(s, "/"): n separators give n+1 segments, empty ones included.
RECURSIVE Split(_)
Split(s) ==
    IF \A i \in 1..Len(s) : s[i] # "/"
    THEN <<s>>
    ELSE LET i == CHOOSE k \in 1..Len(s) :
                     s[k] = "/" /\ \A j \in 1..(k - 1) : s[j] # "/"
         IN  <<SubSeq(s, 1, i - 1)>> \o Split(SubSeq(s, i + 1, Len(s)))

\* The default predicate NewBlobloProxy installs.
isCacheableUri(requestURI) ==
    LET pathElements == Split(requestURI)
    IN  Len(pathElements) > 2 /\ pathElements[Len(pathElements) - 1] = <<"blobs">>

\* blobDigest := pathElements[len(pathElements)-1]
blobDigestOf(requestURI) ==
    LET pathElements == Split(requestURI)
    IN  pathElements[Len(pathElements)]

\* Every key a request can lead to, whatever predicate is installed.
Digests == {blobDigestOf(u) : u \in AllRequestURIs}

\* The part of a request target before "?" (net/http puts it in URL.Path).
PathOf(uri) ==
    IF \E i \in 1..Len(uri) : uri[i] = "?"
    THEN SubSeq(uri, 1, (CHOOSE k \in 1..Len(uri) :
                            uri[k] = "?" /\ \A j \in 1..(k - 1) : uri[j] # "?") - 1)
    ELSE uri

\* ------------------------------------------------------------ requests
\* The *http.Request the server hands to ServeHTTP.
NewRequest(method, uri, header) ==
    [Method     |-> method,
     RequestURI |-> uri,
     Host       |-> listenHost,
     URL        |-> [Scheme |-> "", Host |-> "", Path |-> PathOf(uri)],
     Header     |-> header]

NoRequest == NewRequest("", NoUri, HeaderAuth)

\* Mutant: the clone is made without the credentials of the inbound request.
getUpstreamRequest_NoAuthorization(r) ==
    [r EXCEPT !.RequestURI = NoUri,
              !.Host = upstreamUrl.Host,
              !.URL.Host = upstreamUrl.Host,
              !.URL.Scheme = upstreamUrl.Scheme,
              !.Header = [k \in DOMAIN @ \ {"Authorization"} |-> @[k]]]

getUpstreamRequest(req) ==
    [req EXCEPT !.RequestURI = NoUri,
                !.Host = upstreamUrl.Host,
                !.URL.Host = upstreamUrl.Host,
                !.URL.Scheme = upstreamUrl.Scheme]

\* ----------------------------------------------------- response writer
\* A body is a sequence of chunks; a chunk records what it is a piece of.
Chunk(kind, of, i) == [kind |-> kind, of |-> of, i |-> i]

NewResponseWriter ==
    [wroteHeader |-> FALSE, status |-> 0, Location |-> NoUri, body |-> <<>>]

\* http.ResponseWriter.WriteHeader: only the first call counts.
WriteHeader(w, code) ==
    IF w.wroteHeader THEN w
    ELSE [w EXCEPT !.wroteHeader = TRUE, !.status = code]

\* http.ResponseWriter.Write: an implicit WriteHeader(200), then the bytes.
Write(w, chunk) ==
    [WriteHeader(w, StatusOK) EXCEPT !.body = Append(@, chunk)]

\* What the server does when the handler returns without having written.
finishRequest(w) == WriteHeader(w, StatusOK)

\* http.Redirect with an absolute URL leaves it alone; a URL with neither
\* scheme nor leading "/" is made relative to the directory of the request path.
HasScheme(url) == Len(url) > 0 /\ url[1] \in {"http:", "https:"}

DirOf(path) ==
    IF \E i \in 1..Len(path) : path[i] = "/"
    THEN SubSeq(path, 1, CHOOSE k \in 1..Len(path) :
                            path[k] = "/" /\ \A j \in (k + 1)..Len(path) : path[j] # "/")
    ELSE <<>>

Redirect(w, req, url, code) ==
    LET target == IF HasScheme(url) \/ (Len(url) > 0 /\ url[1] = "/")
                  THEN url
                  ELSE DirOf(req.URL.Path) \o url
        w1 == IF w.wroteHeader THEN w ELSE [w EXCEPT !.Location = target]
        w2 == WriteHeader(w1, code)
    IN  IF req.Method = MethodGet THEN Write(w2, Chunk("a href", target, 1)) ELSE w2

\* ------------------------------------------------------------ upstream
\* The blob the upstream serves for a request path: MaxBodyLen chunks.
BlobBody(uri) == [i \in 1..MaxBodyLen |-> Chunk("blob", PathOf(uri), i)]

NoAnswer == [err |-> nil, status |-> 0, body |-> <<>>]
Answer(status, body) == [err |-> nil, status |-> status, body |-> body]
Unreachable == [err |-> "dial tcp: connection refused", status |-> 0, body |-> <<>>]

\* What http.DefaultClient.Do(headReq) may return.
ProbeAnswers == {Unreachable, Answer(StatusOK, <<>>), Answer(401, <<>>)}

\* What http.DefaultClient.Do(upstreamReq) may return for the GET of uri: the
\* blob, an error page, an empty error response, or no response at all.
FetchAnswers(uri) ==
    {Unreachable,
     Answer(StatusOK, BlobBody(uri)),
     Answer(404, <<Chunk("errors", PathOf(uri), 1)>>),
     Answer(503, <<>>)}

\* What the fallback reverse proxy may produce for a request.
FallbackAnswers ==
    {Answer(StatusOK, <<Chunk("upstream", <<>>, 1)>>), Answer(401, <<>>)}

\* httputil.ReverseProxy.ServeHTTP: relays status and body into w.
ReverseProxyServe(w, ans) ==
    LET w1 == WriteHeader(w, ans.status)
    IN  [w1 EXCEPT !.body = @ \o ans.body]

\* ----------------------------------------------------------------- S3
NoObject == [exists |-> FALSE, body |-> <<>>]
Object(body) == [exists |-> TRUE, body |-> body]

ErrNotFound == "api error NotFound"
ErrUnavailable == "api error ServiceUnavailable"
ErrTimeout == "context deadline exceeded"

IsAPIError(err) == err \in {ErrNotFound, ErrUnavailable}
ErrorCode(err) == IF err = ErrNotFound THEN "NotFound" ELSE "ServiceUnavailable"

\* Faults the S3 backend may answer a call with, besides answering it.
BackendFaults == {nil, ErrUnavailable, ErrTimeout}

\* s3Client.HeadObject on the bucket: the error it returns.
HeadObject(bucket, blobDigest, fault) ==
    IF fault # nil THEN fault
    ELSE IF bucket[blobDigest].exists THEN nil ELSE ErrNotFound

\* Mutant: the NotFound of HeadObject is returned as it came.
isBlobInCache_NotFoundIsError(bucket, blobDigest, fault) ==
    LET err == HeadObject(bucket, blobDigest, fault)
    IN  [isInCache |-> err = nil, err |-> err]

\* Mutant: every error of HeadObject is taken for "not in the cache".
isBlobInCache_AnyErrorIsMiss(bucket, blobDigest, fault) ==
    LET err == HeadObject(bucket, blobDigest, fault)
    IN  [isInCache |-> err = nil, err |-> nil]

\* Mutant: the NotFound of HeadObject is taken for a hit.
isBlobInCache_NotFoundIsHit(bucket, blobDigest, fault) ==
    LET err == HeadObject(bucket, blobDigest, fault)
    IN  IF err # nil /\ ~(IsAPIError(err) /\ ErrorCode(err) = "NotFound")
        THEN [isInCache |-> FALSE, err |-> err]
        ELSE [isInCache |-> TRUE, err |-> nil]

isBlobInCache(bucket, blobDigest, fault) ==
    LET err == HeadObject(bucket, blobDigest, fault)
    IN  IF err # nil
        THEN [isInCache |-> FALSE,
              err |-> IF IsAPIError(err) /\ ErrorCode(err) = "NotFound" THEN nil ELSE err]
        ELSE [isInCache |-> TRUE, err |-> nil]

\* s3PresignClient.PresignGetObject: a signed absolute URL of the object.
PresignGetObject(blobDigest, fault) ==
    IF fault # nil
    THEN [URL |-> NoUri, err |-> fault]
    ELSE [URL |-> <<"https:", "//", s3BucketName, "/">> \o blobDigest
                      \o <<"?", "X-Amz-Signature">>,
          err |-> nil]

getPresignedUrl(blobDigest, fault) ==
    LET urlStr == PresignGetObject(blobDigest, fault)
    IN  IF urlStr.err # nil
        THEN [url |-> NoUri, err |-> urlStr.err]
        ELSE [url |-> urlStr.URL, err |-> nil]

\* ------------------------------------------------------------- state
VARIABLES
    pc,        \* where each client's handler is
    req,       \* the inbound request of each client
    w,         \* the response writer of each client: what the client receives
    h,         \* the handler's locals
    log,       \* the calls each handler has made, in order
    store,     \* the S3 bucket: digest -> object
    puts,      \* how many times an object was written under each digest
    gone,      \* the client has disconnected: writes to it fail
    fallback,  \* the calls of the fallback proxy: how many, with what, its answer
    blo,       \* the BlobloProxy: the predicate installed, the preserve-host flag
    load       \* the requests the clients send: which clients, URIs, headers

vars == <<pc, req, w, h, log, store, puts, gone, fallback, blo, load>>

NoLocals ==
    [blobDigest |-> NoUri,
     headReq    |-> NoRequest,
     upstreamReq |-> NoRequest,
     probe      |-> NoAnswer,
     headErr    |-> nil,
     check      |-> [isInCache |-> FALSE, err |-> nil],
     presign    |-> [url |-> NoUri, err |-> nil],
     response   |-> NoAnswer,
     pos        |-> 0,
     teed       |-> <<>>,
     uploadErr  |-> nil,
     uploadedAtStart |-> {}]

\* The bucket outlives the process: it starts empty, or holding a blob that
\* was put there before (README: init_localstack.sh prepopulates one layer).
Buckets ==
    {[d \in Digests |-> NoObject],
     [d \in Digests |-> IF d = blobDigestOf(UriBlob)
                        THEN Object(BlobBody(UriBlob)) ELSE NoObject]}

\* The predicate NewBlobloProxy installs and the flag readConfigFromEnvs reads
\* from an empty environment.
DefaultBlo == [isCacheableUri |-> "default", preserveHost |-> FALSE]

\* The field isCacheableUri can be replaced; the flag can be set.
Blos == [isCacheableUri : {"default", "always", "never"}, preserveHost : BOOLEAN]

InitHandlers ==
    /\ pc = [c \in Clients |-> "idle"]
    /\ req = [c \in Clients |-> NoRequest]
    /\ w = [c \in Clients |-> NewResponseWriter]
    /\ h = [c \in Clients |-> NoLocals]
    /\ log = [c \in Clients |-> <<>>]
    /\ store \in Buckets
    /\ puts = [d \in Digests |-> 0]
    /\ gone = [c \in Clients |-> FALSE]
    /\ fallback = [c \in Clients |->
                      [calls |-> 0, req |-> NoRequest, out |-> NoRequest, resp |-> NoAnswer]]

\* The proxy as main builds it, two clients sending plain requests.
Init ==
    /\ InitHandlers
    /\ blo = DefaultBlo
    /\ load = [clients |-> {"c1", "c2"}, uris |-> RequestURIs, headers |-> {HeaderAuth}]

\* Any configuration of the proxy, one client sending any request.
InitConf ==
    /\ InitHandlers
    /\ blo \in Blos
    /\ load = [clients |-> {"c1"}, uris |-> AllRequestURIs, headers |-> Headers]

\* The default proxy, three clients asking for the same blob.
InitThree ==
    /\ InitHandlers
    /\ blo = DefaultBlo
    /\ load = [clients |-> Clients, uris |-> {UriBlob}, headers |-> {HeaderAuth}]

\* ------------------------------------------------- the handler's branches
\* Mutant: the method is not looked at.
Intercepts_AnyMethod(r) == isCacheableUri(r.RequestURI)

\* Mutant: the predicate installed is not asked, the default one is.
Intercepts_DefaultOnly(r) == r.Method = MethodGet /\ isCacheableUri(r.RequestURI)

\* blo.isCacheableUri(requestURI): a call of the predicate installed.
CallIsCacheableUri(requestURI) ==
    CASE blo.isCacheableUri = "default" -> isCacheableUri(requestURI)
      [] blo.isCacheableUri = "always"  -> TRUE
      [] blo.isCacheableUri = "never"   -> FALSE

\* if req.Method == http.MethodGet && blo.isCacheableUri(req.RequestURI)
Intercepts(r) == r.Method = MethodGet /\ CallIsCacheableUri(r.RequestURI)

\* Mutant: any answer of the upstream lets the request through to the cache.
AfterProbe_AnyStatus(response) ==
    IF response.err # nil THEN "error" ELSE "check"

\* Mutant: a refusal of the upstream is answered with a 500.
AfterProbe_RefusalIsError(response) ==
    IF response.err # nil THEN "error"
    ELSE IF response.status = StatusOK THEN "check"
    ELSE "error"

\* Mutant: an unreachable upstream is left to the fallback proxy.
AfterProbe_ErrorFallsBack(response) ==
    IF response.err # nil THEN "fallback"
    ELSE IF response.status = StatusOK THEN "check"
    ELSE "fallback"

\* After http.DefaultClient.Do(headReq).
AfterProbe(response) ==
    IF response.err # nil THEN "error"
    ELSE IF response.status = StatusOK THEN "check"
    ELSE "fallback"

\* Mutant: a blob found in the cache is fetched and uploaded all the same.
AfterCheck_NeverHit(res) ==
    IF res.err # nil THEN "fallback" ELSE "fetch"

\* Mutant: the error only being logged, the result (false) is then used: a miss.
AfterCheck_ErrorIsMiss(res) ==
    IF res.isInCache THEN "presign" ELSE "fetch"

\* After blo.cache.isBlobInCache(blobDigest): the error is logged and the
\* if/else-if/else chain is left, which ends at the fallback proxy.
AfterCheck(res) ==
    IF res.err # nil THEN "fallback"
    ELSE IF res.isInCache THEN "presign"
    ELSE "fetch"

\* Mutant: the presigned link is never used.
AfterPresign_NeverRedirect(res) == "fallback"

\* Mutant: the error of getPresignedUrl is not looked at.
AfterPresign_IgnoreError(res) == "redirect"

\* After blo.cache.getPresignedUrl(blobDigest).
AfterPresign(res) == IF res.err # nil THEN "fallback" ELSE "redirect"

\* Mutant: the error of the upstream GET is not looked at.
AfterFetch_IgnoreError(response) == "upload"

\* After http.DefaultClient.Do(upstreamReq): the status is not looked at.
AfterFetch(response) == IF response.err # nil THEN "error" ELSE "upload"

\* --------------------------------------------------------- handler steps
Locals(c) == h[c]

\* Mutant: the Host is rewritten whatever the preserve-host flag says.
Director_IgnoresPreserveHost(r) ==
    [r EXCEPT !.URL.Scheme = upstreamUrl.Scheme,
              !.URL.Host = upstreamUrl.Host,
              !.Host = upstreamUrl.Host,
              !.Header = IF "User-Agent" \notin DOMAIN @
                         THEN @ @@ ("User-Agent" :> "") ELSE @]

\* The Director of fallbackReverseProxy, on the proxy's copy of the request.
Director(r) ==
    [r EXCEPT !.URL.Scheme = upstreamUrl.Scheme,
              !.URL.Host = upstreamUrl.Host,
              !.Host = IF ~blo.preserveHost THEN upstreamUrl.Host ELSE @,
              !.Header = IF "User-Agent" \notin DOMAIN @
                         THEN @ @@ ("User-Agent" :> "") ELSE @]

\* blo.fallbackReverseProxy.ServeHTTP(w, req) and the return that follows it.
Delegate(c, r, fb) ==
    /\ w' = [w EXCEPT ![c] = finishRequest(ReverseProxyServe(@, fb))]
    /\ fallback' = [fallback EXCEPT
                        ![c] = [calls |-> @.calls + 1, req |-> r,
                                out |-> Director(r), resp |-> fb]]
    /\ log' = [log EXCEPT ![c] = Append(@, "fallback")]
    /\ pc' = [pc EXCEPT ![c] = "done"]

\* Mutant: the return after the 500 is missing, the handler runs on to the
\* fallback proxy at its end.
InternalError_FallsThrough(c) ==
    /\ w' = [w EXCEPT ![c] = finishRequest(ReverseProxyServe(
                 WriteHeader(@, StatusInternalServerError), Answer(401, <<>>)))]
    /\ fallback' = [fallback EXCEPT
                        ![c] = [calls |-> @.calls + 1, req |-> req[c],
                                out |-> Director(req[c]), resp |-> Answer(401, <<>>)]]
    /\ log' = [log EXCEPT ![c] = Append(Append(@, "WriteHeader"), "fallback")]
    /\ pc' = [pc EXCEPT ![c] = "done"]

\* w.WriteHeader(http.StatusInternalServerError); return
InternalError(c) ==
    /\ w' = [w EXCEPT ![c] = finishRequest(WriteHeader(@, StatusInternalServerError))]
    /\ log' = [log EXCEPT ![c] = Append(@, "WriteHeader")]
    /\ pc' = [pc EXCEPT ![c] = "done"]
    /\ UNCHANGED fallback

\* The handler goes on to its next blocking call.
Call(c, what, at) ==
    /\ log' = [log EXCEPT ![c] = Append(@, what)]
    /\ pc' = [pc EXCEPT ![c] = at]
    /\ UNCHANGED <<w, fallback>>

\* ServeHTTP up to the first blocking call: classify, then either send the
\* HEAD probe or hand the request to the fallback proxy.
ServeHTTP(c, method, uri, header, fb) ==
    /\ pc[c] = "idle"
    /\ c \in load.clients
    /\ LET r == NewRequest(method, uri, header)
       IN  /\ req' = [req EXCEPT ![c] = r]
           /\ IF Intercepts(r)
              THEN /\ h' = [h EXCEPT
                              ![c].blobDigest = blobDigestOf(r.RequestURI),
                              ![c].headReq = [getUpstreamRequest(r) EXCEPT
                                                 !.Method = MethodHead],
                              ![c].uploadedAtStart =
                                  {d \in Digests : store[d].exists /\ puts[d] > 0}]
                   /\ Call(c, "probe", "probe")
              ELSE /\ Delegate(c, r, fb)
                   /\ UNCHANGED h
    /\ UNCHANGED <<store, puts, gone, blo, load>>

\* Mutant: a digest this process has seen stored is not looked up again.
ProbeReturn_Remembers(c, response, fb) ==
    /\ pc[c] = "probe"
    /\ h' = [h EXCEPT ![c].probe = response]
    /\ LET next == AfterProbe(response)
       IN  CASE next = "error"    -> InternalError(c)
             [] next = "fallback" -> Delegate(c, req[c], fb)
             [] next = "check"    ->
                  IF Locals(c).blobDigest \in Locals(c).uploadedAtStart
                  THEN Call(c, "getPresignedUrl", "presign")
                  ELSE Call(c, "isBlobInCache", "check")
    /\ UNCHANGED <<req, store, puts, gone, blo, load>>

\* Mutant: the request handed to the fallback proxy is the probe, not req.
ProbeReturn_ForwardsProbe(c, response, fb) ==
    /\ pc[c] = "probe"
    /\ h' = [h EXCEPT ![c].probe = response]
    /\ LET next == AfterProbe(response)
       IN  CASE next = "error"    -> InternalError(c)
             [] next = "fallback" -> Delegate(c, Locals(c).headReq, fb)
             [] next = "check"    -> Call(c, "isBlobInCache", "check")
    /\ UNCHANGED <<req, store, puts, gone, blo, load>>

\* The probe returns.
ProbeReturn(c, response, fb) ==
    /\ pc[c] = "probe"
    /\ h' = [h EXCEPT ![c].probe = response]
    /\ LET next == AfterProbe(response)
       IN  CASE next = "error"    -> InternalError(c)
             [] next = "fallback" -> Delegate(c, req[c], fb)
             [] next = "check"    -> Call(c, "isBlobInCache", "check")
    /\ UNCHANGED <<req, store, puts, gone, blo, load>>

\* isBlobInCache returns.
CheckReturn(c, fault, fb) ==
    /\ pc[c] = "check"
    /\ LET res == isBlobInCache(store, Locals(c).blobDigest, fault)
           next == AfterCheck(res)
       IN  /\ h' = [h EXCEPT ![c].check = res,
                             ![c].headErr = HeadObject(store, Locals(c).blobDigest, fault),
                             ![c].upstreamReq =
                                 IF next = "fetch" THEN getUpstreamRequest(req[c]) ELSE @]
           /\ CASE next = "fallback" -> Delegate(c, req[c], fb)
                [] next = "presign"  -> Call(c, "getPresignedUrl", "presign")
                [] next = "fetch"    -> Call(c, "fetch", "fetch")
    /\ UNCHANGED <<req, store, puts, gone, blo, load>>

\* Mutant: when the presign fails the blob is fetched and uploaded as on a miss.
PresignReturn_MissOnError(c, fault, fb) ==
    /\ pc[c] = "presign"
    /\ LET res == getPresignedUrl(Locals(c).blobDigest, fault)
           next == AfterPresign(res)
       IN  /\ h' = [h EXCEPT ![c].presign = res,
                             ![c].upstreamReq =
                                 IF next = "fallback" THEN getUpstreamRequest(req[c]) ELSE @]
           /\ CASE next = "fallback" -> Call(c, "fetch", "fetch")
                [] next = "redirect" ->
                     /\ w' = [w EXCEPT ![c] = finishRequest(
                                  Redirect(@, req[c], res.url, StatusFound))]
                     /\ log' = [log EXCEPT ![c] = Append(@, "Redirect")]
                     /\ pc' = [pc EXCEPT ![c] = "done"]
                     /\ UNCHANGED fallback
    /\ UNCHANGED <<req, store, puts, gone, blo, load>>

\* getPresignedUrl returns.
PresignReturn(c, fault, fb) ==
    /\ pc[c] = "presign"
    /\ LET res == getPresignedUrl(Locals(c).blobDigest, fault)
           next == AfterPresign(res)
       IN  /\ h' = [h EXCEPT ![c].presign = res]
           /\ CASE next = "fallback" -> Delegate(c, req[c], fb)
                [] next = "redirect" ->
                     /\ w' = [w EXCEPT ![c] = finishRequest(
                                  Redirect(@, req[c], res.url, StatusFound))]
                     /\ log' = [log EXCEPT ![c] = Append(@, "Redirect")]
                     /\ pc' = [pc EXCEPT ![c] = "done"]
                     /\ UNCHANGED fallback
    /\ UNCHANGED <<req, store, puts, gone, blo, load>>

\* The upstream GET returns: on success uploadBlob is called with the TeeReader.
FetchReturn(c, response) ==
    /\ pc[c] = "fetch"
    /\ h' = [h EXCEPT ![c].response = response]
    /\ LET next == AfterFetch(response)
       IN  CASE next = "error"  -> InternalError(c)
             [] next = "upload" -> Call(c, "uploadBlob", "upload")
    /\ UNCHANGED <<req, store, puts, gone, blo, load>>

\* uploadBlob has returned (err is logged when it is not nil); the handler returns.
UploadReturn(c, err) ==
    /\ h' = [h EXCEPT ![c].uploadErr = err]
    /\ w' = [w EXCEPT ![c] = finishRequest(@)]
    /\ pc' = [pc EXCEPT ![c] = "done"]

\* Mutant: uploadBlob is given response.Body itself, nothing reaches the client.
TeeRead_NoTee(c, readFails) ==
    /\ pc[c] = "upload"
    /\ Locals(c).pos < Len(Locals(c).response.body)
    /\ LET chunk == Locals(c).response.body[Locals(c).pos + 1]
       IN  IF readFails
           THEN /\ UploadReturn(c, "unexpected EOF")
           ELSE /\ h' = [h EXCEPT ![c].pos = @ + 1, ![c].teed = Append(@, chunk)]
                /\ UNCHANGED <<pc, w>>
    /\ UNCHANGED <<req, log, store, puts, gone, fallback, blo, load>>

\* Mutant: the error of the write to the client is dropped, the uploader is
\* given the chunk all the same.
TeeRead_IgnoresWriteError(c, readFails) ==
    /\ pc[c] = "upload"
    /\ Locals(c).pos < Len(Locals(c).response.body)
    /\ LET chunk == Locals(c).response.body[Locals(c).pos + 1]
       IN  IF readFails
           THEN /\ UploadReturn(c, "unexpected EOF")
           ELSE /\ h' = [h EXCEPT ![c].pos = @ + 1, ![c].teed = Append(@, chunk)]
                /\ w' = [w EXCEPT ![c] = IF gone[c] THEN @ ELSE Write(@, chunk)]
                /\ UNCHANGED pc
    /\ UNCHANGED <<req, log, store, puts, gone, fallback, blo, load>>

\* One Read of the uploader on io.TeeReader(response.Body, w): the chunk read
\* from the upstream is written to w before the uploader gets it; an error of
\* either the read or the write is what the uploader's Read returns, and the
\* uploader gives up on it.
TeeRead(c, readFails) ==
    /\ pc[c] = "upload"
    /\ Locals(c).pos < Len(Locals(c).response.body)
    /\ LET chunk == Locals(c).response.body[Locals(c).pos + 1]
       IN  IF readFails
           THEN /\ UploadReturn(c, "unexpected EOF")
           ELSE IF gone[c]
           THEN /\ h' = [h EXCEPT ![c].pos = @ + 1, ![c].uploadErr = "broken pipe"]
                /\ w' = [w EXCEPT ![c] = finishRequest(@)]
                /\ pc' = [pc EXCEPT ![c] = "done"]
           ELSE /\ h' = [h EXCEPT ![c].pos = @ + 1, ![c].teed = Append(@, chunk)]
                /\ w' = [w EXCEPT ![c] = Write(@, chunk)]
                /\ UNCHANGED pc
    /\ UNCHANGED <<req, log, store, puts, gone, fallback, blo, load>>

\* Mutant: a failed upload takes away what the bucket held under the digest.
UploadFail_RemovesObject(c) ==
    /\ pc[c] = "upload"
    /\ Locals(c).pos > 0 \/ Locals(c).pos = Len(Locals(c).response.body)
    /\ store' = [store EXCEPT ![Locals(c).blobDigest] = NoObject]
    /\ UploadReturn(c, ErrUnavailable)
    /\ UNCHANGED <<req, log, puts, gone, fallback, blo, load>>

\* The S3 backend fails the upload: uploadBlob returns the error.  The uploader
\* talks to the backend only once it has read a first part, so the failure comes
\* after any non-empty prefix of the body, or after the end of the body.
UploadFail(c) ==
    /\ pc[c] = "upload"
    /\ Locals(c).pos > 0 \/ Locals(c).pos = Len(Locals(c).response.body)
    /\ UploadReturn(c, ErrUnavailable)
    /\ UNCHANGED <<req, log, store, puts, gone, fallback, blo, load>>

\* Mutant: the object is stored under a key that is not that of the request.
UploadComplete_FixedKey(c) ==
    /\ pc[c] = "upload"
    /\ Locals(c).pos = Len(Locals(c).response.body)
    /\ store' = [store EXCEPT ![blobDigestOf(UriBlob)] = Object(Locals(c).teed)]
    /\ puts' = [puts EXCEPT ![blobDigestOf(UriBlob)] = @ + 1]
    /\ UploadReturn(c, nil)
    /\ UNCHANGED <<req, log, gone, fallback, blo, load>>

\* Mutant: the store of a digest waits for the other uploads of that digest.
UploadComplete_ExclusiveDigest(c) ==
    /\ pc[c] = "upload"
    /\ Locals(c).pos = Len(Locals(c).response.body)
    /\ \A o \in Clients \ {c} :
           ~(pc[o] = "upload" /\ Locals(o).blobDigest = Locals(c).blobDigest)
    /\ store' = [store EXCEPT ![Locals(c).blobDigest] = Object(Locals(c).teed)]
    /\ puts' = [puts EXCEPT ![Locals(c).blobDigest] = @ + 1]
    /\ UploadReturn(c, nil)
    /\ UNCHANGED <<req, log, gone, fallback, blo, load>>

\* The uploader has read the body to its end and the backend stores the object.
UploadComplete(c) ==
    /\ pc[c] = "upload"
    /\ Locals(c).pos = Len(Locals(c).response.body)
    /\ store' = [store EXCEPT ![Locals(c).blobDigest] = Object(Locals(c).teed)]
    /\ puts' = [puts EXCEPT ![Locals(c).blobDigest] = @ + 1]
    /\ UploadReturn(c, nil)
    /\ UNCHANGED <<req, log, gone, fallback, blo, load>>

\* The client goes away while its response is being streamed.
ClientDisconnect(c) ==
    /\ pc[c] = "upload"
    /\ ~gone[c]
    /\ gone' = [gone EXCEPT ![c] = TRUE]
    /\ UNCHANGED <<pc, req, w, h, log, store, puts, fallback, blo, load>>

\* The steps of the handler of c after its first blocking call: each is the
\* return of the call the handler is blocked in.
Handler(c) ==
    \/ \E a \in ProbeAnswers, fb \in FallbackAnswers : ProbeReturn(c, a, fb)
    \/ \E f \in BackendFaults, fb \in FallbackAnswers : CheckReturn(c, f, fb)
    \/ \E f \in BackendFaults, fb \in FallbackAnswers : PresignReturn(c, f, fb)
    \/ \E a \in FetchAnswers(req[c].RequestURI) : FetchReturn(c, a)
    \/ \E readFails \in BOOLEAN : TeeRead(c, readFails)
    \/ UploadFail(c)
    \/ UploadComplete(c)

Next ==
    \E c \in Clients :
        \/ \E m \in Methods, u \in load.uris, hd \in load.headers,
                 fb \in FallbackAnswers :
               ServeHTTP(c, m, u, hd, fb)
        \/ Handler(c)
        \/ ClientDisconnect(c)

Spec == Init /\ [][Next]_vars

\* The same proxy under any configuration, serving one client.
SpecConf == InitConf /\ [][Next]_vars

\* Three requests for one blob at the same time.
SpecThree == InitThree /\ [][Next]_vars

\* The goroutine of a handler is scheduled and the calls it blocks in return.
FairSpec == Spec /\ \A c \in Clients : WF_vars(Handler(c))

\* ----------------------------------------------------------------- claims
Has(c, what) == \E i \in 1..Len(log[c]) : log[c][i] = what
Times(c, what) == Cardinality({i \in 1..Len(log[c]) : log[c][i] = what})
CacheCalls == {"isBlobInCache", "getPresignedUrl", "uploadBlob"}

\* The request of c has been received.
Received(c) == pc[c] # "idle"
Finished(c) == pc[c] = "done"
\* The probe of c has returned / has returned 200.
ProbeReturned(c) == Has(c, "probe") /\ pc[c] # "probe"
ProbeOK(c) == ProbeReturned(c) /\ h[c].probe.err = nil /\ h[c].probe.status = StatusOK
\* isBlobInCache / getPresignedUrl of c has returned.
CheckReturned(c) == Has(c, "isBlobInCache") /\ pc[c] # "check"
PresignReturned(c) == Has(c, "getPresignedUrl") /\ pc[c] # "presign"
\* uploadBlob of c has returned.
UploadReturned(c) == Has(c, "uploadBlob") /\ pc[c] # "upload"

\* The client got exactly the response the fallback proxy produced, the
\* fallback proxy having been called once.
ServedByFallback(c) ==
    /\ Finished(c)
    /\ fallback[c].calls = 1
    /\ Times(c, "fallback") = 1
    /\ w[c] = finishRequest(ReverseProxyServe(NewResponseWriter, fallback[c].resp))

\* C1: a request that is not a GET, or whose URI is not cacheable, makes no
\* probe, no fetch and no cache call, and is handed to the fallback proxy
\* once; the client gets what the fallback proxy produces.
C1_NotCacheableGoesToFallback ==
    \A c \in Clients :
        (Received(c) /\ ~(req[c].Method = MethodGet /\ isCacheableUri(req[c].RequestURI)))
            => /\ log[c] = <<"fallback">>
               /\ ServedByFallback(c)

C1_Witness ==
    \E c \in Clients :
        /\ Finished(c)
        /\ req[c].Method = MethodHead
        /\ req[c].RequestURI = UriBlob
        /\ fallback[c].calls = 1

\* C2: within a request, every cache call and every redirect to a presigned
\* link comes after the probe of that request has returned 200.
C2_CacheOnlyAfterProbeOK ==
    \A c \in Clients :
        /\ \A i \in 1..Len(log[c]) :
               log[c][i] \in CacheCalls \cup {"Redirect"}
                   => /\ ProbeOK(c)
                      /\ \E j \in 1..(i - 1) : log[c][j] = "probe"
        /\ (w[c].Location # NoUri \/ w[c].status = StatusFound) => ProbeOK(c)

C2_Witness ==
    \E c \in Clients :
        /\ Finished(c)
        /\ w[c].status = StatusFound
        /\ w[c].Location # NoUri
        /\ Has(c, "getPresignedUrl")

\* C3: a cacheable GET whose probe returns a status other than 200 makes no
\* cache call and no fetch; it is handed to the fallback proxy once and the
\* client gets the fallback proxy's response.
C3_ProbeRefusedGoesToFallback ==
    \A c \in Clients :
        (ProbeReturned(c) /\ h[c].probe.err = nil /\ h[c].probe.status # StatusOK)
            => /\ log[c] = <<"probe", "fallback">>
               /\ ServedByFallback(c)

C3_Witness ==
    \E c \in Clients :
        /\ ProbeReturned(c)
        /\ h[c].probe.err = nil
        /\ h[c].probe.status = 401
        /\ fallback[c].calls = 1

\* C4: a cacheable GET whose probe fails at transport level is answered 500
\* and ends there: no fallback, no cache call, no second probe.
C4_ProbeUnreachableIs500 ==
    \A c \in Clients :
        (ProbeReturned(c) /\ h[c].probe.err # nil)
            => /\ Finished(c)
               /\ log[c] = <<"probe", "WriteHeader">>
               /\ w[c].status = StatusInternalServerError
               /\ w[c].body = <<>>
               /\ w[c].Location = NoUri
               /\ fallback[c].calls = 0

C4_Witness ==
    \E c \in Clients :
        /\ ProbeReturned(c)
        /\ h[c].probe.err # nil
        /\ w[c].status = StatusInternalServerError

\* C5: probe 200, isBlobInCache (true, nil), getPresignedUrl (url, nil): the
\* client gets 302 with Location exactly url; no fetch, no upload, no fallback.
C5_HitRedirectsToPresignedUrl ==
    \A c \in Clients :
        (PresignReturned(c) /\ h[c].presign.err = nil)
            => /\ Finished(c)
               /\ ProbeOK(c)
               /\ h[c].check = [isInCache |-> TRUE, err |-> nil]
               /\ w[c].status = StatusFound
               /\ w[c].Location = h[c].presign.url
               /\ w[c].Location = PresignGetObject(h[c].blobDigest, nil).URL
               /\ log[c] = <<"probe", "isBlobInCache", "getPresignedUrl", "Redirect">>
               /\ fallback[c].calls = 0

C5_Witness ==
    \E c \in Clients :
        /\ PresignReturned(c)
        /\ h[c].presign.err = nil
        /\ w[c].status = StatusFound
        /\ w[c].Location = PresignGetObject(blobDigestOf(UriBlob), nil).URL

\* The handler of c took the miss path (isBlobInCache said (false, nil)) and
\* its uploadBlob returned without an error.
StoredOnMiss(c) ==
    /\ UploadReturned(c)
    /\ h[c].check = [isInCache |-> FALSE, err |-> nil]
    /\ h[c].uploadErr = nil

\* C6: after a miss whose store did not fail, the client has received the
\* upstream body exactly, and the digest is in the bucket: an existence check
\* answered by the bucket reports true.
C6_MissRelaysBodyAndStores ==
    \A c \in Clients :
        StoredOnMiss(c)
            => /\ Finished(c)
               /\ ProbeOK(c)
               /\ w[c].body = h[c].response.body
               /\ store[h[c].blobDigest].exists
               /\ isBlobInCache(store, h[c].blobDigest, nil)
                      = [isInCache |-> TRUE, err |-> nil]

C6_Witness ==
    \E c \in Clients :
        /\ StoredOnMiss(c)
        /\ Len(h[c].response.body) = MaxBodyLen
        /\ w[c].body = BlobBody(UriBlob)
        /\ store[blobDigestOf(UriBlob)].exists

\* The handler of c started after a miss-path upload had stored its digest,
\* and its probe returned 200.
RepeatAfterStore(c) ==
    /\ Finished(c)
    /\ ProbeOK(c)
    /\ h[c].blobDigest \in h[c].uploadedAtStart

RedirectedNoUpload(c) ==
    /\ w[c].status = StatusFound
    /\ w[c].Location = PresignGetObject(h[c].blobDigest, nil).URL
    /\ ~Has(c, "uploadBlob")

C8_PresignFailureGoesToFallback ==
    \A c \in Clients :
        (PresignReturned(c) /\ h[c].presign.err # nil)
            => /\ ServedByFallback(c)
               /\ log[c] = <<"probe", "isBlobInCache", "getPresignedUrl", "fallback">>
               /\ w[c].Location = NoUri
               /\ w[c].status = fallback[c].resp.status
               /\ w[c].status # StatusFound

C8_Witness ==
    \E c \in Clients :
        /\ PresignReturned(c)
        /\ h[c].presign.err # nil
        /\ fallback[c].calls = 1

C10_StoreFailureKeepsBody ==
    \A c \in Clients :
        (UploadReturned(c) /\ h[c].uploadErr = ErrUnavailable /\ ~gone[c])
            => w[c].body = h[c].response.body

\* C11: when HeadObject fails with the API error NotFound, isBlobInCache
\* returns (false, nil); NotFound never comes back as an error.
C11_NotFoundIsNoError ==
    \A c \in Clients :
        /\ (CheckReturned(c) /\ h[c].headErr = ErrNotFound)
               => h[c].check = [isInCache |-> FALSE, err |-> nil]
        /\ h[c].check.err # ErrNotFound

C11_Witness ==
    \E c \in Clients :
        /\ CheckReturned(c)
        /\ h[c].headErr = ErrNotFound
        /\ h[c].check.err = nil

\* C12 as stated: on the miss path the client receives the status the
\* upstream gave to the GET of the core.
C12_MissRelaysStatus ==
    \A c \in Clients :
        (UploadReturned(c) /\ h[c].uploadErr = nil)
            => w[c].status = h[c].response.status

\* The upstream GET of c has returned.
FetchReturned(c) == Has(c, "fetch") /\ pc[c] # "fetch"

\* C13: when the upstream GET of the miss path fails at transport level the
\* client gets 500 and the request ends: no uploadBlob, no fallback, no
\* second fetch.
C13_FetchUnreachableIs500 ==
    \A c \in Clients :
        (FetchReturned(c) /\ h[c].response.err # nil)
            => /\ Finished(c)
               /\ log[c] = <<"probe", "isBlobInCache", "fetch", "WriteHeader">>
               /\ w[c].status = StatusInternalServerError
               /\ w[c].body = <<>>
               /\ fallback[c].calls = 0

C13_Witness ==
    \E c \in Clients :
        /\ FetchReturned(c)
        /\ h[c].response.err # nil
        /\ w[c].status = StatusInternalServerError

\* The handlers of c and o run at the same time on the same uncached digest:
\* both took the miss path for it.
BothMiss(c, o) ==
    /\ c # o
    /\ h[c].blobDigest = h[o].blobDigest
    /\ CheckReturned(c) /\ h[c].check = [isInCache |-> FALSE, err |-> nil]
    /\ CheckReturned(o) /\ h[o].check = [isInCache |-> FALSE, err |-> nil]

\* The next step of the miss path of c can be taken, whatever the other
\* handlers are doing.
MissNotBlocked(c) ==
    /\ pc[c] = "fetch"
           => ENABLED FetchReturn(c, Answer(StatusOK, BlobBody(req[c].RequestURI)))
    /\ (pc[c] = "upload" /\ h[c].pos < Len(h[c].response.body))
           => ENABLED TeeRead(c, FALSE)
    /\ (pc[c] = "upload" /\ h[c].pos = Len(h[c].response.body))
           => ENABLED UploadComplete(c)

\* C14: of two requests that take the miss path for the same digest at the
\* same time, neither waits for the other, each one whose store does not fail
\* has given its client the whole body the upstream sent it, and both
\* requests terminate.
C14_ConcurrentMissesBothComplete ==
    /\ [](\A c \in Clients, o \in Clients :
              BothMiss(c, o)
                  => /\ MissNotBlocked(c)
                     /\ StoredOnMiss(c)
                            => /\ Finished(c)
                               /\ w[c].body = h[c].response.body
                               /\ h[c].teed = h[c].response.body)
    /\ \A c \in Clients : Received(c) ~> Finished(c)

C14_Witness ==
    \E c \in Clients, o \in Clients :
        /\ BothMiss(c, o)
        /\ StoredOnMiss(c) /\ StoredOnMiss(o)
        /\ puts[h[c].blobDigest] = 2
        /\ w[c].body = BlobBody(UriBlob) /\ w[o].body = BlobBody(UriBlob)

\* C15 as stated: the object under a digest is written once, by the first
\* successful miss-path upload, and never again.
C15_Original == \A d \in Digests : puts[d] <= 1

\* The step is the successful end of the miss-path upload of c for digest d,
\* which stores the body the upstream sent to c.
StoresOnMiss(c, d) ==
    /\ pc[c] = "upload" /\ pc'[c] = "done"
    /\ h[c].blobDigest = d
    /\ h[c].check = [isInCache |-> FALSE, err |-> nil]
    /\ h'[c].uploadErr = nil
    /\ store'[d] = Object(h[c].response.body)

\* C15 amended: the object under a digest is written by successful miss-path
\* uploads for that digest only (each of them writes it, so it may be written
\* more than once), and an object once stored is never deleted.
C15_OnlyMissUploadsWrite ==
    [][\A d \in Digests :
          /\ store[d].exists => store'[d].exists
          /\ (store'[d] # store[d] \/ puts'[d] # puts[d])
                 => /\ \E c \in Clients : StoresOnMiss(c, d)
                    /\ puts'[d] = puts[d] + 1]_vars

C15_Witness ==
    \E c \in Clients, o \in Clients :
        /\ BothMiss(c, o)
        /\ StoredOnMiss(c) /\ StoredOnMiss(o)
        /\ h[c].response.body # h[o].response.body
        /\ store[h[c].blobDigest] = Object(h[c].response.body)
        /\ puts[h[c].blobDigest] = 2

\* The sequences of calls of one pass through the orchestration.
Orchestration ==
    { <<"fallback">>,
      <<"probe", "WriteHeader">>,
      <<"probe", "fallback">>,
      <<"probe", "isBlobInCache", "fallback">>,
      <<"probe", "isBlobInCache", "getPresignedUrl", "Redirect">>,
      <<"probe", "isBlobInCache", "getPresignedUrl", "fallback">>,
      <<"probe", "isBlobInCache", "fetch", "WriteHeader">>,
      <<"probe", "isBlobInCache", "fetch", "uploadBlob">> }

\* C16: a GET is intercepted exactly when the predicate installed says so:
\* under the always-false predicate no probe and no cache operation is made
\* and the request goes to the fallback proxy, even for a blob path; under the
\* always-true predicate every GET is probed and every GET whose probe
\* returned 200 queries the cache; under the default predicate a GET is probed
\* iff its URI has the blob shape.  Whatever the predicate, a request of
\* another method is not intercepted and a finished request has made one of
\* the call sequences of the orchestration.
C16_PredicateDecidesInterception ==
    \A c \in Clients :
        Received(c) =>
            /\ blo.isCacheableUri = "never"
                   => /\ log[c] = <<"fallback">>
                      /\ \A op \in CacheCalls : ~Has(c, op)
            /\ (blo.isCacheableUri = "always" /\ req[c].Method = MethodGet)
                   => /\ Has(c, "probe")
                      /\ ProbeOK(c) => Has(c, "isBlobInCache")
            /\ (blo.isCacheableUri = "default" /\ req[c].Method = MethodGet)
                   => (Has(c, "probe") <=> isCacheableUri(req[c].RequestURI))
            /\ req[c].Method # MethodGet => log[c] = <<"fallback">>
            /\ ProbeOK(c) => Has(c, "isBlobInCache")
            /\ Finished(c) => log[c] \in Orchestration

C16_Witness ==
    \E c \in Clients :
        /\ blo.isCacheableUri = "always"
        /\ req[c].RequestURI = UriNotBlob
        /\ ~isCacheableUri(req[c].RequestURI)
        /\ ProbeOK(c)
        /\ CheckReturned(c)

\* The path has at least three segments, the second-to-last being "blobs".
BlobShaped(path) ==
    LET segments == Split(path)
    IN  Len(segments) > 2 /\ segments[Len(segments) - 1] = <<"blobs">>

\* C17 as stated: with the default predicate a request is a candidate for
\* interception (it is probed) iff its method is GET and its path, split on
\* "/", has at least three segments with "blobs" second-to-last; any other
\* request goes to the fallback proxy.
C17_PathShapeDecides ==
    \A c \in Clients :
        (Received(c) /\ blo.isCacheableUri = "default")
            => /\ Has(c, "probe")
                      <=> (req[c].Method = MethodGet /\ BlobShaped(req[c].URL.Path))
               /\ ~(req[c].Method = MethodGet /\ BlobShaped(req[c].URL.Path))
                      => log[c] = <<"fallback">>

\* The same for the requests whose query string holds no "/".
C17_NoSlashInQuery ==
    \A c \in Clients :
        (/\ Received(c) /\ blo.isCacheableUri = "default"
         /\ Len(Split(req[c].RequestURI)) = Len(Split(req[c].URL.Path)))
            => (Has(c, "probe")
                   <=> (req[c].Method = MethodGet /\ BlobShaped(req[c].URL.Path)))

\* The request o for the digest of c has finished.
EarlierFor(c, o) ==
    /\ o # c
    /\ Finished(o)
    /\ h[o].blobDigest = h[c].blobDigest

\* C18: every cacheable GET whose probe returned 200 calls isBlobInCache, and
\* calls it once, whatever earlier requests for the digest led to (a hit, a
\* miss with an upload, an error) and whether or not the digest had been
\* stored by this process when the request came in.
C18_AlwaysAsksBackend ==
    \A c \in Clients :
        ProbeOK(c)
            => /\ Times(c, "isBlobInCache") = 1
               /\ log[c][2] = "isBlobInCache"

C18_Witness ==
    \E c \in Clients, o \in Clients :
        /\ EarlierFor(c, o)
        /\ StoredOnMiss(o)
        /\ h[c].blobDigest \in h[c].uploadedAtStart
        /\ ProbeOK(c)
        /\ Times(c, "isBlobInCache") = 1

\* clone is the inbound request inbound made ready for the upstream: target
\* cleared, Host, URL host and URL scheme the upstream's, headers and URL path
\* those of the inbound request.
IsUpstreamClone(clone, inbound) ==
    /\ clone.RequestURI = NoUri
    /\ clone.Host = upstreamUrl.Host
    /\ clone.URL.Host = upstreamUrl.Host
    /\ clone.URL.Scheme = upstreamUrl.Scheme
    /\ clone.URL.Path = inbound.URL.Path
    /\ clone.Header = inbound.Header
    /\ "Authorization" \in DOMAIN clone.Header

\* C19: the probe sent is such a clone with method HEAD, the request fetched
\* is such a clone with the method of the inbound request, and the two differ
\* in the method only.
C19_UpstreamClone ==
    \A c \in Clients :
        /\ Has(c, "probe")
               => /\ IsUpstreamClone(h[c].headReq, req[c])
                  /\ h[c].headReq.Method = MethodHead
        /\ Has(c, "fetch")
               => /\ IsUpstreamClone(h[c].upstreamReq, req[c])
                  /\ h[c].upstreamReq.Method = req[c].Method
                  /\ h[c].headReq = [h[c].upstreamReq EXCEPT !.Method = MethodHead]
                  /\ h[c].upstreamReq = [h[c].headReq EXCEPT !.Method = MethodGet]

C19_Witness ==
    \E c \in Clients :
        /\ Has(c, "fetch")
        /\ req[c].RequestURI = UriBlobQuery
        /\ req[c].Host = listenHost
        /\ req[c].Header = HeaderAuthAgent
        /\ h[c].upstreamReq.RequestURI = NoUri
        /\ h[c].upstreamReq.Host = upstreamUrl.Host
        /\ h[c].upstreamReq.Header["Authorization"] = "Basic creds"
        /\ h[c].headReq.Method = MethodHead

\* C20: the request the fallback proxy sends out has the upstream's URL scheme
\* and host; its Host is the upstream's host when the preserve-host flag is
\* false and the inbound Host when it is true; it has an empty User-Agent
\* when the inbound request had no User-Agent header and the inbound headers
\* unchanged when it had one; method, path and the other headers are those of
\* the inbound request.
C20_FallbackDirector ==
    \A c \in Clients :
        fallback[c].calls > 0 =>
            LET in == fallback[c].req
                out == fallback[c].out
            IN  /\ in = req[c]
                /\ out.URL.Scheme = upstreamUrl.Scheme
                /\ out.URL.Host = upstreamUrl.Host
                /\ out.Host = IF blo.preserveHost THEN in.Host ELSE upstreamUrl.Host
                /\ (out.Host = upstreamUrl.Host) <=> ~blo.preserveHost
                /\ "User-Agent" \in DOMAIN in.Header => out.Header = in.Header
                /\ "User-Agent" \notin DOMAIN in.Header
                       => /\ DOMAIN out.Header = DOMAIN in.Header \cup {"User-Agent"}
                          /\ out.Header["User-Agent"] = ""
                          /\ \A k \in DOMAIN in.Header : out.Header[k] = in.Header[k]
                /\ out.Method = in.Method
                /\ out.URL.Path = in.URL.Path
                /\ out.RequestURI = in.RequestURI

C20_Witness ==
    \E c \in Clients :
        /\ fallback[c].calls = 1
        /\ blo.preserveHost
        /\ fallback[c].out.Host = listenHost
        /\ fallback[c].out.URL.Host = upstreamUrl.Host
        /\ "User-Agent" \notin DOMAIN req[c].Header
        /\ fallback[c].out.Header["User-Agent"] = ""

\* The calls that end a request, and how many of them the handler of c made.
Terminals == {"fallback", "WriteHeader", "Redirect", "uploadBlob"}
TerminalCalls(c) == {i \in 1..Len(log[c]) : log[c][i] \in Terminals}

\* The four ways a request ends, told by what the client got.
EndsInFallback(c) ==
    /\ log[c][Len(log[c])] = "fallback"
    /\ ServedByFallback(c)
EndsIn500(c) ==
    /\ log[c][Len(log[c])] = "WriteHeader"
    /\ w[c] = finishRequest(WriteHeader(NewResponseWriter, StatusInternalServerError))
    /\ fallback[c].calls = 0
EndsInRedirect(c) ==
    /\ log[c][Len(log[c])] = "Redirect"
    /\ w[c].status = StatusFound
    /\ w[c].Location = h[c].presign.url
    /\ fallback[c].calls = 0
EndsInStreamAndStore(c) ==
    /\ log[c][Len(log[c])] = "uploadBlob"
    /\ UploadReturned(c)
    /\ w[c].status = StatusOK
    /\ w[c].Location = NoUri
    /\ fallback[c].calls = 0

\* C21: a finished request made exactly one terminal call, its last, and the
\* client's response is that of this outcome; the fallback proxy is called at
\* most once for a request, and only on a response writer nothing has been
\* written to.
C21_OneTerminalOutcome ==
    /\ [](\A c \in Clients :
              /\ fallback[c].calls <= 1
              /\ Cardinality(TerminalCalls(c)) <= 1
              /\ Finished(c)
                     => /\ TerminalCalls(c) = {Len(log[c])}
                        /\ Cardinality({o \in {"fallback", "500", "302", "store"} :
                               \/ o = "fallback" /\ EndsInFallback(c)
                               \/ o = "500" /\ EndsIn500(c)
                               \/ o = "302" /\ EndsInRedirect(c)
                               \/ o = "store" /\ EndsInStreamAndStore(c)}) = 1)
    /\ [][\A c \in Clients :
             fallback'[c].calls # fallback[c].calls
                 => /\ w[c] = NewResponseWriter
                    /\ fallback[c].calls = 0
                    /\ pc'[c] = "done"]_vars

C21_Witness ==
    \E c \in Clients, o \in Clients :
        /\ Finished(c) /\ Finished(o)
        /\ EndsInStreamAndStore(c)
        /\ EndsInFallback(o)
        /\ Has(o, "isBlobInCache")

\* C22 as stated: when uploadBlob has returned, with or without an error of
\* the store, the upstream body has been read to its end (the client being
\* connected and the upstream not breaking off).
C22_ReturnsAfterBodyRead ==
    \A c \in Clients :
        (UploadReturned(c) /\ ~gone[c] /\ h[c].uploadErr \in {nil, ErrUnavailable})
            => h[c].pos = Len(h[c].response.body)

\* C23 as stated: a client that went away does not end the upload: unless
\* the upstream breaks off or the backend fails, uploadBlob returns without an
\* error, having been given the whole upstream body.
C23_ClientFailureDoesNotAbort ==
    \A c \in Clients :
        (UploadReturned(c) /\ gone[c]
             /\ h[c].uploadErr \notin {"unexpected EOF", ErrUnavailable})
            => /\ h[c].uploadErr = nil
               /\ h[c].pos = Len(h[c].response.body)
               /\ store[h[c].blobDigest].exists

\* A handler whose client went away before the body was read through never
\* ends its upload without an error.
ClientFailureAborts ==
    [][\A c \in Clients :
          (pc[c] = "upload" /\ gone[c] /\ h[c].pos < Len(h[c].response.body)
               /\ h'[c] # h[c])
              => /\ pc'[c] = "done"
                 /\ h'[c].uploadErr # nil
                 /\ store' = store]_vars

\* The client of c has received a 302 for the digest of its request.
Redirected(c) == Finished(c) /\ Has(c, "Redirect") /\ w[c].status = StatusFound

\* o is in its miss-path upload for the digest of c.
UploadingFor(o, c) ==
    /\ o # c
    /\ pc[o] = "upload"
    /\ h[o].blobDigest = h[c].blobDigest

\* A whole body the upstream can send for the GET of uri is stored under d.
CompleteObject(d, uri) ==
    /\ store[d].exists
    /\ \E a \in FetchAnswers(uri) : a.err = nil /\ store[d].body = a.body

LastSegment(path) == Split(path)[Len(Split(path))]

\* C25 as stated: with the default predicate, a GET whose path has "blobs" as
\* its second-to-last segment is intercepted whatever its query string, and
\* the key of an intercepted request is the last segment of its path.
C25_DigestIsLastPathSegment ==
    \A c \in Clients :
        (Received(c) /\ blo.isCacheableUri = "default" /\ req[c].Method = MethodGet)
            => /\ BlobShaped(req[c].URL.Path) => Has(c, "probe")
               /\ Has(c, "probe") => h[c].blobDigest = LastSegment(req[c].URL.Path)

\* The same for requests without a query string.
C25_NoQuery ==
    \A c \in Clients :
        (/\ Received(c) /\ blo.isCacheableUri = "default" /\ req[c].Method = MethodGet
         /\ req[c].URL.Path = req[c].RequestURI)
            => /\ BlobShaped(req[c].URL.Path) => Has(c, "probe")
               /\ Has(c, "probe") => h[c].blobDigest = LastSegment(req[c].URL.Path)

\* C26: a request that calls uploadBlob has called neither getPresignedUrl
\* nor Redirect and never does; a request that calls getPresignedUrl has made
\* no upstream GET and no uploadBlob and never does; the calls of the miss
\* path are probe, isBlobInCache, the upstream GET, uploadBlob, in this order.
\* Calls made are never unmade, so what holds of the calls of a finished
\* request holds for good.
C26_HitAndMissExclusive ==
    /\ [](\A c \in Clients :
              /\ Has(c, "uploadBlob")
                     => /\ ~Has(c, "getPresignedUrl")
                        /\ ~Has(c, "Redirect")
                        /\ w[c].status # StatusFound
                        /\ log[c] = <<"probe", "isBlobInCache", "fetch", "uploadBlob">>
              /\ Has(c, "getPresignedUrl")
                     => /\ ~Has(c, "fetch")
                        /\ ~Has(c, "uploadBlob")
                        /\ h[c].check.isInCache
              /\ Has(c, "fetch")
                     => /\ SubSeq(log[c], 1, 3) = <<"probe", "isBlobInCache", "fetch">>
                        /\ ~h[c].check.isInCache)
    /\ [][\A c \in Clients :
             /\ Len(log'[c]) >= Len(log[c])
             /\ SubSeq(log'[c], 1, Len(log[c])) = log[c]
             /\ Finished(c) => log'[c] = log[c]]_vars

C26_Witness ==
    \E c \in Clients, o \in Clients :
        /\ Finished(c) /\ Finished(o)
        /\ log[c] = <<"probe", "isBlobInCache", "fetch", "uploadBlob">>
        /\ Has(o, "getPresignedUrl")
        /\ h[o].presign.err # nil

\* C27: isBlobInCache says true exactly when HeadObject returned no error;
\* an error of HeadObject other than NotFound is returned as it is, with
\* false; (true, error) is never returned.
C27_TrueIffNoBackendError ==
    \A c \in Clients :
        CheckReturned(c)
            => /\ h[c].check.isInCache <=> h[c].headErr = nil
               /\ h[c].headErr \notin {nil, ErrNotFound}
                      => h[c].check = [isInCache |-> FALSE, err |-> h[c].headErr]
               /\ ~(h[c].check.isInCache /\ h[c].check.err # nil)

C27_Witness ==
    \E c \in Clients, o \in Clients :
        /\ CheckReturned(c)
        /\ h[c].headErr = ErrTimeout
        /\ h[c].check = [isInCache |-> FALSE, err |-> ErrTimeout]
        /\ CheckReturned(o)
        /\ h[o].headErr = nil
        /\ h[o].check.isInCache

IsPrefix(s, t) == Len(s) <= Len(t) /\ SubSeq(t, 1, Len(s)) = s

\* C28: on the miss path what uploadBlob has been given is a prefix of what
\* has been written to the client, which is a prefix of the upstream body;
\* a chunk given to uploadBlob is in the client's response by then; and when
\* the write to the client fails, the Read of uploadBlob returns that error:
\* uploadBlob is given no more and ends with the error.
C28_FanOutInLockstep ==
    /\ [](\A c \in Clients :
              Has(c, "uploadBlob")
                  => /\ IsPrefix(h[c].teed, w[c].body)
                     /\ IsPrefix(w[c].body, h[c].response.body)
                     /\ Len(h[c].teed) <= h[c].pos)
    /\ [][\A c \in Clients :
             /\ h'[c].teed # h[c].teed
                    => /\ h'[c].teed = Append(h[c].teed, h[c].response.body[h[c].pos + 1])
                       /\ w'[c].body = Append(w[c].body, h[c].response.body[h[c].pos + 1])
                       /\ ~gone[c]
             /\ (pc[c] = "upload" /\ gone[c] /\ h'[c].pos # h[c].pos)
                    => /\ h'[c].teed = h[c].teed
                       /\ h'[c].uploadErr = "broken pipe"
                       /\ pc'[c] = "done"
                       /\ store' = store]_vars

C28_Witness ==
    \E c \in Clients :
        /\ UploadReturned(c)
        /\ gone[c]
        /\ h[c].uploadErr = "broken pipe"
        /\ Len(w[c].body) = 1
        /\ h[c].teed = w[c].body
        /\ h[c].pos = 2

\* C29 as stated: uploadBlob is called, and an object stored, only with the
\* body of an upstream GET answered 200.
C29_OnlyOKBodiesStored ==
    \A c \in Clients :
        /\ Has(c, "uploadBlob") => h[c].response.status = StatusOK
        /\ StoredOnMiss(c)
               => store[h[c].blobDigest] = Object(BlobBody(req[c].RequestURI))

\* The key of the request of c: the last element of its URI split on "/".
KeyOf(c) ==
    LET pathElements == Split(req[c].RequestURI)
    IN  pathElements[Len(pathElements)]

\* C30: the digest a handler works with is the key of its request and stays
\* the same; the answer of its isBlobInCache is about the object under this
\* key, its presigned link is a link to this key, and its upload writes the
\* object under this key and no other; the objects under other keys are left
\* as they are.
C30_OneKeyPerRequest ==
    /\ [](\A c \in Clients :
              /\ Has(c, "probe") => h[c].blobDigest = KeyOf(c)
              /\ (PresignReturned(c) /\ h[c].presign.err = nil)
                     => h[c].presign.url = PresignGetObject(KeyOf(c), nil).URL)
    /\ [][/\ \A c \in Clients :
               /\ (pc[c] = "check" /\ pc'[c] # "check")
                      => /\ h'[c].headErr = nil => store[KeyOf(c)].exists
                         /\ h'[c].headErr = ErrNotFound => ~store[KeyOf(c)].exists
                         /\ h'[c].check.isInCache => store[KeyOf(c)].exists
               /\ (pc[c] = "upload" /\ pc'[c] = "done" /\ h'[c].uploadErr = nil)
                      => /\ store'[KeyOf(c)] = Object(h[c].response.body)
                         /\ \A d \in Digests \ {KeyOf(c)} : store'[d] = store[d]
               /\ (Received(c) /\ Has(c, "probe")) => h'[c].blobDigest = h[c].blobDigest
         /\ \A d \in Digests :
               store'[d] # store[d]
                   => \E c \in Clients : pc[c] = "upload" /\ pc'[c] = "done" /\ KeyOf(c) = d]_vars

C30_Witness ==
    \E c \in Clients, o \in Clients :
        /\ StoredOnMiss(c) /\ StoredOnMiss(o)
        /\ req[c].RequestURI = UriShort
        /\ req[o].RequestURI = UriBlobQuery
        /\ h[c].blobDigest # h[o].blobDigest
        /\ store[h[c].blobDigest] = Object(BlobBody(UriShort))
        /\ store[h[o].blobDigest] = Object(BlobBody(UriBlobQuery))

\* The fallback proxy was called for c after the probe had been sent.
FallbackAfterProbe(c) == Has(c, "probe") /\ Has(c, "fallback")

\* req is the request as the server built it from what the client sent.
AsSent(r) ==
    /\ r = NewRequest(r.Method, r.RequestURI, r.Header)
    /\ r.RequestURI # NoUri
    /\ r.Host = listenHost
    /\ r.URL.Host # upstreamUrl.Host
    /\ r.URL.Scheme # upstreamUrl.Scheme

\* C31: the request of a handler stays as it was received while the probe
\* and fetch clones are built and sent, and a fallback proxy called after a
\* probe (the probe refused, the existence check failed, the presign failed)
\* is given this request: method GET, target, Host, URL and headers as sent,
\* and not the clone made for the probe.
C31_InboundRequestUntouched ==
    /\ [](\A c \in Clients :
              /\ Received(c) => AsSent(req[c])
              /\ FallbackAfterProbe(c)
                     => /\ fallback[c].req = req[c]
                        /\ fallback[c].req.Method = MethodGet
                        /\ fallback[c].req # h[c].headReq
                        /\ h[c].headReq.Method = MethodHead
                        /\ \/ ProbeOK(c) /\ PresignReturned(c) /\ h[c].presign.err # nil
                           \/ ProbeOK(c) /\ CheckReturned(c) /\ h[c].check.err # nil
                           \/ ProbeReturned(c) /\ h[c].probe.status # StatusOK)
    /\ [][\A c \in Clients : Received(c) => req'[c] = req[c]]_vars

C31_Witness ==
    \E a \in Clients, b \in Clients, c \in Clients :
        /\ log[a] = <<"probe", "fallback">>
        /\ log[b] = <<"probe", "isBlobInCache", "fallback">>
        /\ log[c] = <<"probe", "isBlobInCache", "getPresignedUrl", "fallback">>
        /\ \A x \in {a, b, c} :
               /\ fallback[x].req = NewRequest(MethodGet, UriBlob, HeaderAuth)
               /\ h[x].headReq.RequestURI = NoUri
====
